---------------------------- MODULE Spec2Model ----------------------------
(***************************************************************************)
(* A model of the fake-news detection demo: the scoring engine             *)
(* (AnalysisService, src/src/lib/analysisService.ts) and the submit        *)
(* handler of the page that drives it (FakeNewsDetector.handleAnalyze).    *)
(*                                                                         *)
(* A text is a sequence of one-character strings, so that the regular      *)
(* expressions of the engine are computed on the characters.  Numbers the  *)
(* code holds as doubles are held exactly: a probability is a pair         *)
(* <<numerator, denominator>>, the fallback score is held in tenths.       *)
(***************************************************************************)
EXTENDS Integers, Sequences, FiniteSets

VARIABLES
    sentimentAnalyzer,  \* AnalysisService.sentimentAnalyzer: 0 is null, n > 0 the n-th pipeline built
    textClassifier,     \* AnalysisService.textClassifier: 0 is null, 1 a pipeline
    sentimentBuilt,     \* how many sentiment pipelines pipeline(...) has handed out
    call,               \* the analyzeText invocations: call id -> its locals and position
    text,               \* FakeNewsDetector: the textarea's content
    isAnalyzing,        \* FakeNewsDetector: the in-flight flag
    result,             \* FakeNewsDetector: <<>> is null, <<r>> the last AnalysisResult
    progress,           \* FakeNewsDetector: the progress bar's percentage
    toast,              \* the title of the last toast shown ("none" before any)
    ui                  \* handleAnalyze's position: pc, index into progressUpdates, the text it closed over

vars == <<sentimentAnalyzer, textClassifier, sentimentBuilt, call,
          text, isAnalyzing, result, progress, toast, ui>>

serviceVars == <<sentimentAnalyzer, textClassifier, sentimentBuilt, call>>
uiVars == <<text, isAnalyzing, result, progress, toast, ui>>

----------------------------------------------------------------------------
(* Bounds of the model.                                                    *)

\* A generated text is at most this many fragments long.
MaxFrags == 2

\* The classifier's probability is one of 0/PDen, 1/PDen, ..., PDen/PDen.
PDen == 8

\* That many analyzeText invocations may be in flight at once.
MaxCalls == 2

----------------------------------------------------------------------------
(* Characters and the regular-expression primitives the engine uses.       *)

UpperCase == <<"A","B","C","D","E","F","G","H","I","J","K","L","M","N","O","P","Q","R","S","T","U","V","W","X","Y","Z">>
LowerCase == <<"a","b","c","d","e","f","g","h","i","j","k","l","m","n","o","p","q","r","s","t","u","v","w","x","y","z">>

Digits == {"0", "1", "2", "3", "4", "5", "6", "7", "8", "9"}

\* What "." does not match, and what String.prototype.trim strips.
LineTerminators == {"\n", "\r"}
WhiteSpace == {" ", "\t", "\n", "\r"}

\* [A-Z]
UpperSet == {UpperCase[i] : i \in 1..26}

IsUpper(c) == c \in UpperSet

\* The /i flag: both sides are compared in lower case.
LowerOf == [c \in UpperSet |-> LowerCase[CHOOSE i \in 1..26 : UpperCase[i] = c]]

ToLower(c) == IF IsUpper(c) THEN LowerOf[c] ELSE c

LowerText(t) == [i \in 1..Len(t) |-> ToLower(t[i])]

\* pattern occurs in t at position i
MatchAt(t, pat, i) ==
    /\ i >= 1
    /\ i + Len(pat) - 1 <= Len(t)
    /\ \A j \in 1..Len(pat) : t[i + j - 1] = pat[j]

\* /pat/.test(t) for a literal pattern
Contains(t, pat) == \E i \in 1..Len(t) : MatchAt(t, pat, i)

\* /a.?b/.test(t): a, then at most one character that is no line terminator, then b
ContainsOptGap(t, a, b) ==
    \E i \in 1..Len(t) :
        /\ MatchAt(t, a, i)
        /\ \/ MatchAt(t, b, i + Len(a))
           \/ /\ i + Len(a) <= Len(t)
              /\ t[i + Len(a)] \notin LineTerminators
              /\ MatchAt(t, b, i + Len(a) + 1)

\* /a.*b/.test(t): a, then any run of characters on the same line, then b
ContainsAnyGap(t, a, b) ==
    \E i \in 1..Len(t) :
        /\ MatchAt(t, a, i)
        /\ \E k \in (i + Len(a))..Len(t) :
              /\ MatchAt(t, b, k)
              /\ \A m \in (i + Len(a))..(k - 1) : t[m] \notin LineTerminators

\* how many patterns of a list match t
Matches(t, patterns) == Cardinality({i \in 1..Len(patterns) : Contains(t, patterns[i])})

\* (text.match(/[A-Z]/g) || []).length
CapsCount(t) == Cardinality({i \in 1..Len(t) : IsUpper(t[i])})

\* capsRatio > 0.3, capsRatio = caps / text.length (NaN for the empty text, and NaN > 0.3 is false)
ExcessiveCaps(t) == Len(t) > 0 /\ 10 * CapsCount(t) > 3 * Len(t)

\* /[!?]{2,}/ matches
PunctuationRun(t) ==
    \E i \in 1..(Len(t) - 1) : t[i] \in {"!", "?"} /\ t[i + 1] \in {"!", "?"}

\* (text.match(/c/g) || []).length for one character c
CountChar(t, c) == Cardinality({i \in 1..Len(t) : t[i] = c})

\* text.trim()
RECURSIVE TrimLeft(_)
TrimLeft(t) == IF t # <<>> /\ Head(t) \in WhiteSpace THEN TrimLeft(Tail(t)) ELSE t

RECURSIVE TrimRight(_)
TrimRight(t) ==
    IF t # <<>> /\ t[Len(t)] \in WhiteSpace THEN TrimRight(SubSeq(t, 1, Len(t) - 1)) ELSE t

Trim(t) == TrimRight(TrimLeft(t))

\* Clamp with the clamping forgotten
ClampForgotten(x, lo, hi) == x

\* Math.max(lo, Math.min(hi, x))
Clamp(x, lo, hi) == IF x < lo THEN lo ELSE IF x > hi THEN hi ELSE x

Min(a, b) == IF a < b THEN a ELSE b
Abs(x) == IF x < 0 THEN -x ELSE x

\* Math.round(num / den), den > 0: the nearest integer, a tie going up
MathRound(num, den) == (2 * num + den) \div (2 * den)

----------------------------------------------------------------------------
(* The pattern tables of the engine, in lower case where the regex has /i. *)

clickbaitPatterns == <<
    <<"y","o","u"," ","w","o","n","'","t"," ","b","e","l","i","e","v","e">>,
    <<"s","h","o","c","k","i","n","g">>,
    <<"a","m","a","z","i","n","g">>,
    <<"i","n","c","r","e","d","i","b","l","e">>,
    <<"u","n","b","e","l","i","e","v","a","b","l","e">>,
    <<"m","u","s","t"," ","s","e","e">>,
    <<"v","i","r","a","l">> >>

emotionalWords == <<
    <<"d","e","v","a","s","t","a","t","i","n","g">>,
    <<"o","u","t","r","a","g","e","o","u","s">>,
    <<"s","c","a","n","d","a","l">>,
    <<"e","x","p","l","o","s","i","v","e">>,
    <<"b","o","m","b","s","h","e","l","l">> >>

\* the six literal ones; /all .* are/i is counted in absoluteMatches
absolutePatterns == <<
    <<"a","l","w","a","y","s">>,
    <<"n","e","v","e","r">>,
    <<"e","v","e","r","y","o","n","e">>,
    <<"n","o","b","o","d","y">>,
    <<"c","o","m","p","l","e","t","e","l","y">>,
    <<"t","o","t","a","l","l","y">> >>

\* the four literal ones; /cover.?up/i is counted in conspiracyMatches
conspiracyPatterns == <<
    <<"t","h","e","y"," ","d","o","n","'","t"," ","w","a","n","t"," ","y","o","u"," ","t","o"," ","k","n","o","w">>,
    <<"h","i","d","d","e","n"," ","t","r","u","t","h">>,
    <<"m","a","i","n","s","t","r","e","a","m"," ","m","e","d","i","a">>,
    <<"w","a","k","e"," ","u","p">> >>

\* /\.edu/ and /\.gov/ carry no /i flag
crediblePatternsCased == <<
    <<".","e","d","u">>,
    <<".","g","o","v">> >>

\* the five literal /i ones; /peer.?reviewed/i is counted in credibleMatches
crediblePatterns == <<
    <<"r","e","u","t","e","r","s">>,
    <<"a","s","s","o","c","i","a","t","e","d"," ","p","r","e","s","s">>,
    <<"b","b","c">>,
    <<"j","o","u","r","n","a","l">>,
    <<"u","n","i","v","e","r","s","i","t","y">> >>

unreliablePatterns == <<
    <<"b","l","o","g">>,
    <<"f","a","c","e","b","o","o","k"," ","p","o","s","t">>,
    <<"t","w","i","t","t","e","r">>,
    <<"a","n","o","n","y","m","o","u","s"," ","s","o","u","r","c","e">>,
    <<"l","e","a","k","e","d">>,
    <<"e","x","c","l","u","s","i","v","e">> >>

sourceMarkers == <<
    <<"a","c","c","o","r","d","i","n","g"," ","t","o">>,
    <<"s","o","u","r","c","e",":">>,
    <<"s","t","u","d","y"," ","s","h","o","w","s">>,
    <<"r","e","s","e","a","r","c","h"," ","i","n","d","i","c","a","t","e","s">> >>

attributionVerbs == <<
    <<"s","a","i","d">>,
    <<"a","c","c","o","r","d","i","n","g">>,
    <<"r","e","p","o","r","t","e","d">>,
    <<"s","t","a","t","e","d">> >>

magnitudeWords == <<
    <<" ","m","i","l","l","i","o","n">>,
    <<" ","b","i","l","l","i","o","n">>,
    <<" ","t","h","o","u","s","a","n","d">> >>

\* /\d+%|\d+\.\d+%|\$\d+|\d+ (million|billion|thousand)/i on the lower-cased text l
hasNumbers(l) ==
    \E i \in 1..Len(l) :
        \/ l[i] \in Digits /\ i < Len(l) /\ l[i + 1] = "%"
        \/ l[i] = "$" /\ i < Len(l) /\ l[i + 1] \in Digits
        \/ l[i] \in Digits /\ \E w \in 1..Len(magnitudeWords) : MatchAt(l, magnitudeWords[w], i + 1)

\* /(according to|source:|study shows|research indicates)/i
hasSources(l) == Matches(l, sourceMarkers) > 0

\* /said|according|reported|stated/i
hasAttribution(l) == Matches(l, attributionVerbs) > 0

----------------------------------------------------------------------------
(* The inputs.                                                             *)

Fragments == <<
    <<"S","H","O","C","K","I","N","G"," ","A","M","A","Z","I","N","G"," ","I","N","C","R","E","D","I","B","L","E"," ","U","N","B","E","L","I","E","V","A","B","L","E"," ","V","I","R","A","L","!","!"," ">>,
    <<"t","h","e","y"," ","d","o","n","'","t"," ","w","a","n","t"," ","y","o","u"," ","t","o"," ","k","n","o","w"," ","t","h","e"," ","h","i","d","d","e","n"," ","t","r","u","t","h"," ">>,
    <<"5","0","%"," ","n","e","v","e","r"," ">>,
    <<"a","c","c","o","r","d","i","n","g"," ","t","o"," ","R","e","u","t","e","r","s",","," ","a"," ","p","e","e","r","-","r","e","v","i","e","w","e","d"," ","j","o","u","r","n","a","l"," ","s","a","i","d"," ">>,
    <<"?","?","?","?","?","?">>,
    <<"l","e","a","k","e","d"," ","s","c","a","n","d","a","l"," ">> >>

RECURSIVE TextsUpTo(_)
TextsUpTo(n) ==
    IF n = 0 THEN {<<>>}
    ELSE LET shorter == TextsUpTo(n - 1)
         IN  shorter \cup {t \o Fragments[i] : t \in shorter, i \in 1..Len(Fragments)}

C8Text == <<"S","H","O","C","K","I","N","G","!","!"," ","Y","o","u"," ","w","o","n","'","t"," ","b","e","l","i","e","v","e"," ","t","h","i","s"," ","a","m","a","z","i","n","g"," ","s","e","c","r","e","t"," ","t","h","e","y"," ","d","o","n","'","t"," ","w","a","n","t"," ","y","o","u"," ","t","o"," ","k","n","o","w","!","!","!">>

AttributedText == <<"A","c","c","o","r","d","i","n","g"," ","t","o"," ","a"," ","s","t","u","d","y"," ","p","u","b","l","i","s","h","e","d"," ","i","n"," ","a"," ","p","e","e","r","-","r","e","v","i","e","w","e","d"," ","j","o","u","r","n","a","l",","," ","r","e","s","e","a","r","c","h","e","r","s"," ","a","t"," ","a"," ","u","n","i","v","e","r","s","i","t","y"," ","f","o","u","n","d"," ","a"," ","1","2","%"," ","i","n","c","r","e","a","s","e",","," ","r","e","p","o","r","t","e","d"," ","b","y"," ","R","e","u","t","e","r","s",".">>

\* what analyzeText is called with
Texts == TextsUpTo(MaxFrags) \cup {C8Text, AttributedText}

\* what the textarea may hold
UITexts == {<<>>, <<" ">>, <<" ","\n","\t"," ">>, <<" ","o","k"," ">>, C8Text}

\* what overlapping callers pass
OverlapTexts == {C8Text}

\* every text of the model
AllTexts == Texts \cup UITexts \cup OverlapTexts

Labels == {"POSITIVE", "NEGATIVE"}

Calls == 1..MaxCalls

----------------------------------------------------------------------------
(* The regular-expression tests of the engine, made once for each text.    *)

Scan(t) ==
    LET l == LowerText(t)
    IN  [ excessiveCaps |-> ExcessiveCaps(t),
          punctuationRun |-> PunctuationRun(t),
          clickbaitMatches |-> Matches(l, clickbaitPatterns),
          emotionalMatches |-> Matches(l, emotionalWords),
          hasNumbers |-> hasNumbers(l),
          hasSources |-> hasSources(l),
          absoluteMatches |->
              Matches(l, absolutePatterns)
                + (IF ContainsAnyGap(l, <<"a","l","l"," ">>, <<" ","a","r","e">>) THEN 1 ELSE 0),
          conspiracyMatches |->
              Matches(l, conspiracyPatterns)
                + (IF ContainsOptGap(l, <<"c","o","v","e","r">>, <<"u","p">>) THEN 1 ELSE 0),
          credibleMatches |->
              Matches(t, crediblePatternsCased) + Matches(l, crediblePatterns)
                + (IF ContainsOptGap(l, <<"p","e","e","r">>, <<"r","e","v","i","e","w","e","d">>) THEN 1 ELSE 0),
          unreliableMatches |-> Matches(l, unreliablePatterns),
          hasAttribution |-> hasAttribution(l),
          \* /you won't believe|shocking|amazing/i
          clickbaitRisk |-> \E i \in 1..3 : Contains(l, clickbaitPatterns[i]),
          \* /(they don't want you to know|hidden truth|cover.?up)/i
          conspiracyRisk |-> \/ \E i \in 1..2 : Contains(l, conspiracyPatterns[i])
                             \/ ContainsOptGap(l, <<"c","o","v","e","r">>, <<"u","p">>),
          wordCount |-> CountChar(t, " ") + 1,
          questionMarks |-> CountChar(t, "?"),
          exclamations |-> CountChar(t, "!") ]

Scanned == [t \in AllTexts |-> Scan(t)]

----------------------------------------------------------------------------
(* The three heuristic sub-scores.                                         *)

analyzeLanguagePatterns(t) ==
    LET s == Scanned[t]
        caps == IF s.excessiveCaps THEN 20 ELSE 0
        punctuation == IF s.punctuationRun THEN 15 ELSE 0
    IN  Clamp(80 - caps - punctuation - s.clickbaitMatches * 10 - s.emotionalMatches * 8, 0, 100)

analyzeFactualConsistency(t) ==
    LET s == Scanned[t]
        unsourced == IF s.hasNumbers /\ ~s.hasSources THEN 25 ELSE 0
    IN  Clamp(75 - unsourced - s.absoluteMatches * 10 - s.conspiracyMatches * 15, 0, 100)

analyzeSourceReliability(t) ==
    LET s == Scanned[t]
        unattributed == IF ~s.hasAttribution THEN 20 ELSE 0
    IN  Clamp(60 + s.credibleMatches * 15 - s.unreliableMatches * 10 - unattributed, 0, 100)

\* the labels identifyRiskFactors can push, in the order it tests them
SuspiciousLanguage == "Suspicious language patterns detected"
LackOfSubstantiation == "Lack of factual substantiation"
Clickbait == "Clickbait-style language"
Conspiracy == "Conspiracy-style rhetoric"
ExcessiveCapitalization == "Excessive capitalization"
ExcessivePunctuation == "Excessive punctuation"
NoAttribution == "No attribution to sources"

\* s followed by x when b holds
PushIf(s, b, x) == IF b THEN Append(s, x) ELSE s

\* identifyRiskFactors with the punctuation test of line 232 left out
identifyRiskFactorsNoPunctuation(t, languageScore, factualScore) ==
    LET s == Scanned[t]
        r1 == PushIf(<<>>, languageScore < 50, SuspiciousLanguage)
        r2 == PushIf(r1, factualScore < 50, LackOfSubstantiation)
        r3 == PushIf(r2, s.clickbaitRisk, Clickbait)
        r4 == PushIf(r3, s.conspiracyRisk, Conspiracy)
        r5 == PushIf(r4, s.excessiveCaps, ExcessiveCapitalization)
        r7 == PushIf(r5, ~s.hasAttribution /\ Len(t) > 100, NoAttribution)
    IN  r7

identifyRiskFactors(t, languageScore, factualScore) ==
    LET s == Scanned[t]
        r1 == PushIf(<<>>, languageScore < 50, SuspiciousLanguage)
        r2 == PushIf(r1, factualScore < 50, LackOfSubstantiation)
        r3 == PushIf(r2, s.clickbaitRisk, Clickbait)
        r4 == PushIf(r3, s.conspiracyRisk, Conspiracy)
        r5 == PushIf(r4, s.excessiveCaps, ExcessiveCapitalization)
        r6 == PushIf(r5, s.punctuationRun, ExcessivePunctuation)
        r7 == PushIf(r6, ~s.hasAttribution /\ Len(t) > 100, NoAttribution)
    IN  r7

----------------------------------------------------------------------------
(* The report analyzeText returns.                                         *)

AnalysisResult(score, class, language, sentiment, factual, source, risks, confidence) ==
    [ credibilityScore |-> score,
      classification |-> class,
      factors |-> [ languagePattern |-> language,
                    sentimentAnalysis |-> sentiment,
                    factualConsistency |-> factual,
                    sourceReliability |-> source ],
      riskFactors |-> risks,
      confidenceLevel |-> confidence ]

\* The if-chain of lines 62-68 and 254-260, on a score held in tenths.
Classification(tenths) ==
    IF tenths >= 750 THEN "trustworthy"
    ELSE IF tenths <= 400 THEN "misleading"
    ELSE "uncertain"

\* sentimentResult[0]?.score || 0.5: a score of 0 is falsy and becomes 0.5
SentimentScore(sentimentResult) ==
    IF sentimentResult.score[1] = 0 THEN <<1, 2>> ELSE sentimentResult.score

\* The try block of analyzeText from line 39 on, given what the classifier answered:
\* sentimentResult = [label, score], score = <<numerator, denominator>>.
analyzeTextResult(t, sentimentResult) ==
    LET languageScore == analyzeLanguagePatterns(t)
        factualScore == analyzeFactualConsistency(t)
        sourceScore == analyzeSourceReliability(t)
        sentimentScore == SentimentScore(sentimentResult)
        num == sentimentScore[1]
        den == sentimentScore[2]
        isNegativeSentiment == sentimentResult.label = "NEGATIVE"
        \* (isNegativeSentiment ? (1 - sentimentScore) * 100 : sentimentScore * 100) is 100 * adj / den
        adj == IF isNegativeSentiment THEN den - num ELSE num
        credibilityScore ==
            MathRound((3 * languageScore + 3 * factualScore + 2 * sourceScore) * den + 200 * adj,
                      10 * den)
        confidenceLevel == MathRound(Abs(credibilityScore - 50) * 2, 1)
    IN  AnalysisResult(credibilityScore,
                       Classification(credibilityScore * 10),
                       languageScore,
                       MathRound(100 * num, den),
                       factualScore,
                       sourceScore,
                       identifyRiskFactors(t, languageScore, factualScore),
                       Min(confidenceLevel, 95))

\* getFallbackAnalysis with the two punctuation weights of line 250 swapped
getFallbackAnalysisSwapped(t) ==
    LET wordCount == Scanned[t].wordCount
        hasQuestionMarks == Scanned[t].questionMarks
        hasExclamation == Scanned[t].exclamations
        credibilityScore ==
            Clamp(700 - hasQuestionMarks * 30 - hasExclamation * 50 + Min(wordCount, 150),
                  300, 850)
    IN  AnalysisResult(MathRound(credibilityScore, 10),
                       Classification(credibilityScore),
                       analyzeLanguagePatterns(t),
                       60,
                       analyzeFactualConsistency(t),
                       analyzeSourceReliability(t),
                       identifyRiskFactors(t, 60, 60),
                       75)

getFallbackAnalysis(t) ==
    LET wordCount == Scanned[t].wordCount
        hasQuestionMarks == Scanned[t].questionMarks
        hasExclamation == Scanned[t].exclamations
        \* credibilityScore before Math.round, in tenths: wordCount / 10 is wordCount tenths
        credibilityScore ==
            Clamp(700 - hasQuestionMarks * 50 - hasExclamation * 30 + Min(wordCount, 150),
                  300, 850)
    IN  AnalysisResult(MathRound(credibilityScore, 10),
                       Classification(credibilityScore),
                       analyzeLanguagePatterns(t),
                       60,
                       analyzeFactualConsistency(t),
                       analyzeSourceReliability(t),
                       identifyRiskFactors(t, 60, 60),
                       75)

----------------------------------------------------------------------------
(* The state after the module and the component are loaded.                *)

IdleCall ==
    [ pc |-> "idle",
      text |-> <<>>,
      initError |-> "none",
      handle |-> 0,
      sentimentResult |-> [label |-> "NONE", score |-> <<0, 1>>],
      path |-> "none",
      result |-> <<>> ]

Init ==
    /\ sentimentAnalyzer = 0
    /\ textClassifier = 0
    /\ sentimentBuilt = 0
    /\ call = [c \in Calls |-> IdleCall]
    /\ text = <<>>
    /\ isAnalyzing = FALSE
    /\ result = <<>>
    /\ progress = 0
    /\ toast = "none"
    /\ ui = [pc |-> "idle", i |-> 0, text |-> <<>>]

----------------------------------------------------------------------------
(* AnalysisService.  Each action is one run of the code between two awaits.*)

\* initializeModels from line 18 on: where the call waits next
AfterSentimentPipeline(classifier) ==
    IF classifier = 0 THEN "awaitTextClassifier" ELSE "initialized"

\* analyzeText(txt) is called: initializeModels runs up to its first await
StartCall(c, txt) ==
    /\ call[c].pc = "idle"
    /\ call' = [call EXCEPT ![c] =
                  [IdleCall EXCEPT
                     !.text = txt,
                     !.pc = IF sentimentAnalyzer = 0
                            THEN "awaitSentimentPipeline"
                            ELSE AfterSentimentPipeline(textClassifier)]]
    /\ UNCHANGED <<sentimentAnalyzer, textClassifier, sentimentBuilt>>

analyzeText(c, txt) == StartCall(c, txt) /\ UNCHANGED uiVars

\* line 11: pipeline('sentiment-analysis', ...) resolves and the handle is stored
SentimentPipelineResolves(c) ==
    /\ call[c].pc = "awaitSentimentPipeline"
    /\ sentimentBuilt' = sentimentBuilt + 1
    /\ sentimentAnalyzer' = sentimentBuilt + 1
    /\ call' = [call EXCEPT ![c].pc = AfterSentimentPipeline(textClassifier)]
    /\ UNCHANGED <<textClassifier, uiVars>>

\* line 11 throws: the catch of line 24 logs, initializeModels returns
SentimentPipelineThrows(c) ==
    /\ call[c].pc = "awaitSentimentPipeline"
    /\ call' = [call EXCEPT ![c].pc = "initialized", ![c].initError = "sentimentAnalyzer"]
    /\ UNCHANGED <<sentimentAnalyzer, textClassifier, sentimentBuilt, uiVars>>

\* line 19: pipeline('text-classification', ...) resolves
TextClassifierResolves(c) ==
    /\ call[c].pc = "awaitTextClassifier"
    /\ textClassifier' = 1
    /\ call' = [call EXCEPT ![c].pc = "initialized"]
    /\ UNCHANGED <<sentimentAnalyzer, sentimentBuilt, uiVars>>

\* line 19 throws
TextClassifierThrows(c) ==
    /\ call[c].pc = "awaitTextClassifier"
    /\ call' = [call EXCEPT ![c].pc = "initialized", ![c].initError = "textClassifier"]
    /\ UNCHANGED <<sentimentAnalyzer, textClassifier, sentimentBuilt, uiVars>>

\* RunSentiment where a missing analyzer is an error that the catch of line 90 handles
RunSentimentThrowsOnNull(c) ==
    /\ call[c].pc = "initialized"
    /\ IF sentimentAnalyzer # 0
       THEN call' = [call EXCEPT ![c].pc = "awaitSentiment", ![c].handle = sentimentAnalyzer]
       ELSE call' = [call EXCEPT
                       ![c].pc = "done",
                       ![c].path = "fallback",
                       ![c].result = <<getFallbackAnalysis(call[c].text)>>]
    /\ UNCHANGED <<sentimentAnalyzer, textClassifier, sentimentBuilt, uiVars>>

\* lines 33-37: with an analyzer the call awaits it; without one it goes on, in the
\* same run, with [{ label: 'NEUTRAL', score: 0.5 }] and returns
RunSentiment(c) ==
    /\ call[c].pc = "initialized"
    /\ IF sentimentAnalyzer # 0
       THEN call' = [call EXCEPT ![c].pc = "awaitSentiment", ![c].handle = sentimentAnalyzer]
       ELSE LET neutral == [label |-> "NEUTRAL", score |-> <<1, 2>>]
            IN  call' = [call EXCEPT
                           ![c].pc = "done",
                           ![c].sentimentResult = neutral,
                           ![c].path = "normal",
                           ![c].result = <<analyzeTextResult(call[c].text, neutral)>>]
    /\ UNCHANGED <<sentimentAnalyzer, textClassifier, sentimentBuilt, uiVars>>

\* the classifier answers [{ label, score: k / PDen }]; lines 39-89 run
SentimentReturns(c, label, k) ==
    /\ call[c].pc = "awaitSentiment"
    /\ LET answer == [label |-> label, score |-> <<k, PDen>>]
       IN  call' = [call EXCEPT
                      ![c].pc = "done",
                      ![c].sentimentResult = answer,
                      ![c].path = "normal",
                      ![c].result = <<analyzeTextResult(call[c].text, answer)>>]
    /\ UNCHANGED <<sentimentAnalyzer, textClassifier, sentimentBuilt, uiVars>>

\* the classifier throws; lines 90-93 run
SentimentThrows(c) ==
    /\ call[c].pc = "awaitSentiment"
    /\ call' = [call EXCEPT
                  ![c].pc = "done",
                  ![c].path = "fallback",
                  ![c].result = <<getFallbackAnalysis(call[c].text)>>]
    /\ UNCHANGED <<sentimentAnalyzer, textClassifier, sentimentBuilt, uiVars>>

\* the caller takes the result of a settled call
TakeResult(c) ==
    /\ call[c].pc = "done"
    /\ call' = [call EXCEPT ![c] = IdleCall]
    /\ UNCHANGED <<sentimentAnalyzer, textClassifier, sentimentBuilt, uiVars>>

----------------------------------------------------------------------------
(* FakeNewsDetector.                                                       *)

progressUpdates == <<20, 45, 70, 90, 100>>

\* the textarea's onChange
SetText(txt) ==
    /\ text' = txt
    /\ UNCHANGED <<isAnalyzing, result, progress, toast, ui, serviceVars>>

\* handleAnalyze testing !text instead of !text.trim()
handleAnalyzeNoTrim ==
    /\ ui.pc = "idle"
    /\ IF text = <<>>
       THEN /\ toast' = "Error"
            /\ UNCHANGED <<isAnalyzing, progress, result, ui>>
       ELSE /\ isAnalyzing' = TRUE
            /\ progress' = progressUpdates[1]
            /\ result' = <<>>
            /\ ui' = [pc |-> "progress", i |-> 1, text |-> text]
            /\ UNCHANGED toast
    /\ UNCHANGED <<text, serviceVars>>

\* handleAnalyze up to its first await; it runs while no analysis is in flight
handleAnalyze ==
    /\ ui.pc = "idle"
    /\ IF Trim(text) = <<>>
       THEN /\ toast' = "Error"
            /\ UNCHANGED <<isAnalyzing, progress, result, ui>>
       ELSE /\ isAnalyzing' = TRUE
            /\ progress' = progressUpdates[1]
            /\ result' = <<>>
            /\ ui' = [pc |-> "progress", i |-> 1, text |-> text]
            /\ UNCHANGED toast
    /\ UNCHANGED <<text, serviceVars>>

\* a 300 ms timer of the loop fires and the next progress value is set
ProgressTimeout ==
    /\ ui.pc = "progress"
    /\ ui.i < Len(progressUpdates)
    /\ progress' = progressUpdates[ui.i + 1]
    /\ ui' = [ui EXCEPT !.i = ui.i + 1]
    /\ UNCHANGED <<text, isAnalyzing, result, toast, serviceVars>>

\* the last timer fires: line 53 calls AnalysisService.analyzeText(text)
InvokeAnalysis ==
    /\ ui.pc = "progress"
    /\ ui.i = Len(progressUpdates)
    /\ StartCall(1, ui.text)
    /\ ui' = [ui EXCEPT !.pc = "awaitAnalysis"]
    /\ UNCHANGED <<text, isAnalyzing, result, progress, toast>>

\* lines 54-59 and the finally of line 67
AnalysisResolved ==
    /\ ui.pc = "awaitAnalysis"
    /\ call[1].pc = "done"
    /\ result' = call[1].result
    /\ toast' = "Analysis Complete"
    /\ isAnalyzing' = FALSE
    /\ ui' = [pc |-> "idle", i |-> 0, text |-> <<>>]
    /\ call' = [call EXCEPT ![1] = IdleCall]
    /\ UNCHANGED <<text, progress, sentimentAnalyzer, textClassifier, sentimentBuilt>>

----------------------------------------------------------------------------
(* The specifications.                                                     *)

\* what a call does once it is started
ServiceStep(c) ==
    \/ SentimentPipelineResolves(c)
    \/ SentimentPipelineThrows(c)
    \/ TextClassifierResolves(c)
    \/ TextClassifierThrows(c)
    \/ RunSentiment(c)
    \/ \E label \in Labels, k \in 0..PDen : SentimentReturns(c, label, k)
    \/ SentimentThrows(c)

\* one caller, one analyzeText at a time, any text
Next ==
    \/ \E txt \in Texts : analyzeText(1, txt)
    \/ ServiceStep(1)
    \/ TakeResult(1)

Spec == Init /\ [][Next]_vars

\* callers that do not wait for one another
NextOverlap ==
    \/ \E c \in Calls, txt \in OverlapTexts : analyzeText(c, txt)
    \/ \E c \in Calls : ServiceStep(c)
    \/ \E c \in Calls : TakeResult(c)

SpecOverlap == Init /\ [][NextOverlap]_vars

\* the page
NextUI ==
    \/ \E txt \in UITexts : SetText(txt)
    \/ handleAnalyze
    \/ ProgressTimeout
    \/ InvokeAnalysis
    \/ ServiceStep(1)
    \/ AnalysisResolved

SpecUI == Init /\ [][NextUI]_vars

----------------------------------------------------------------------------
(* The claims.                                                             *)

Done(c) == call[c].pc = "done"
Returned(c) == call[c].result[1]
Range(s) == {s[i] : i \in 1..Len(s)}

\* the weighted sum of lines 53-58 for the three sub-scores of t and a
\* sentiment-adjusted value of 100 * adj / den, rounded
Weighted(t, adj, den) ==
    MathRound((3 * analyzeLanguagePatterns(t) + 3 * analyzeFactualConsistency(t)
                 + 2 * analyzeSourceReliability(t)) * den + 200 * adj,
              10 * den)

\* the probability the classifier answered, as the claims read it: p = num / den
AnsweredAdj(c) ==
    LET p == call[c].sentimentResult.score
    IN  IF call[c].sentimentResult.label = "NEGATIVE" THEN p[2] - p[1] ELSE p[1]

AnsweredDen(c) == call[c].sentimentResult.score[2]

Answered(c) == Done(c) /\ call[c].path = "normal" /\ call[c].sentimentResult.label \in Labels

\* clamp(70 - 5 * questionMarks - 3 * exclamations + min(wordCount / 10, 15), 30, 85), in tenths,
\* counted on the characters of t
FallbackTenths(t) ==
    LET raw == 700 - 50 * CountChar(t, "?") - 30 * CountChar(t, "!")
                 + Min(CountChar(t, " ") + 1, 150)
    IN  IF raw < 300 THEN 300 ELSE IF raw > 850 THEN 850 ELSE raw

\* C1: every result analyzeText returns, for any text and any classifier outcome,
\* has its four factors and its credibilityScore in 0..100 and its
\* confidenceLevel in 0..95.
C1_ScoresInRange ==
    \A c \in Calls :
        Done(c) =>
            LET r == Returned(c)
            IN  /\ r.factors.languagePattern \in 0..100
                /\ r.factors.sentimentAnalysis \in 0..100
                /\ r.factors.factualConsistency \in 0..100
                /\ r.factors.sourceReliability \in 0..100
                /\ r.credibilityScore \in 0..100
                /\ r.confidenceLevel \in 0..95

\* a result whose language score was clamped up to 0 and whose source score was
\* clamped down to 100
C1_Witness ==
    \E c \in Calls :
        /\ Done(c)
        /\ Scanned[call[c].text].clickbaitMatches = 5
        /\ Scanned[call[c].text].credibleMatches = 3
        /\ Returned(c).factors.languagePattern = 0
        /\ Returned(c).factors.sourceReliability = 100

\* C2: in every result, on either path, the classification is the one the returned
\* credibilityScore decides: trustworthy iff >= 75, misleading iff <= 40,
\* uncertain otherwise.
C2_ClassificationOfReturnedScore ==
    \A c \in Calls :
        Done(c) =>
            LET r == Returned(c)
            IN  /\ r.classification = "trustworthy" <=> r.credibilityScore >= 75
                /\ r.classification = "misleading" <=> r.credibilityScore <= 40
                /\ r.classification = "uncertain" <=>
                      (r.credibilityScore > 40 /\ r.credibilityScore < 75)

\* C3: when the classifier answers POSITIVE or NEGATIVE with probability p, p = 0
\* included, credibilityScore = round(language*0.3 + adj*0.2 + factual*0.3 +
\* source*0.2) with adj = (1 - p)*100 for NEGATIVE and p*100 otherwise.
C3_WeightedScoreOfAnswer ==
    \A c \in Calls :
        Answered(c) =>
            Returned(c).credibilityScore = Weighted(call[c].text, AnsweredAdj(c), AnsweredDen(c))

\* C4: when the classifier answers, the reported sentimentAnalysis factor is the
\* sentiment-adjusted value, (1 - p)*100 for NEGATIVE and p*100 otherwise (to the
\* nearest integer).
C4_ReportedSentimentIsAdjusted ==
    \A c \in Calls :
        Answered(c) =>
            Returned(c).factors.sentimentAnalysis = MathRound(100 * AnsweredAdj(c), AnsweredDen(c))

\* C5, as claimed: when the classifier throws, the result's credibilityScore equals
\* clamp(70 - 5*questionMarks - 3*exclamations + min(wordCount/10, 15), 30, 85),
\* its sentiment factor is 60 and its confidence 75.
C5_FallbackScoreUnrounded ==
    \A c \in Calls :
        (Done(c) /\ call[c].path = "fallback") =>
            /\ 10 * Returned(c).credibilityScore = FallbackTenths(call[c].text)
            /\ Returned(c).factors.sentimentAnalysis = 60
            /\ Returned(c).confidenceLevel = 75

\* C5, amended: when the classifier throws, analyzeText returns a result whose
\* credibilityScore is that clamped value rounded to the nearest integer (a tie
\* going up), whose sentiment factor is 60 and whose confidence is 75.
C5_FallbackScoreRounded ==
    \A c \in Calls :
        /\ call[c].pc = "awaitSentiment" => ENABLED SentimentThrows(c)
        /\ (Done(c) /\ call[c].path = "fallback") =>
              /\ call[c].result # <<>>
              /\ Returned(c).credibilityScore = (FallbackTenths(call[c].text) + 5) \div 10
              /\ Returned(c).factors.sentimentAnalysis = 60
              /\ Returned(c).confidenceLevel = 75

\* a fallback result whose unrounded score ends in .5 and is rounded up
C5_Witness ==
    \E c \in Calls :
        /\ Done(c)
        /\ call[c].path = "fallback"
        /\ FallbackTenths(call[c].text) % 10 = 5
        /\ 10 * Returned(c).credibilityScore = FallbackTenths(call[c].text) + 5

\* C6: over any calls, overlapping ones included, the sentiment pipeline is built
\* at most once and every call that runs the classifier uses that one handle.
C6_PipelineBuiltOnce ==
    /\ sentimentBuilt <= 1
    /\ \A c, d \in Calls :
          (call[c].handle # 0 /\ call[d].handle # 0) => call[c].handle = call[d].handle

\* C7: a call whose model initialization threw, so that it found no sentiment
\* analyzer, returns the result of the normal weighted formula with a neutral
\* probability of 0.5 (adjusted value 50, sentiment factor 50), not the fallback
\* result.
C7_InitFailureIsNeutral ==
    \A c \in Calls :
        /\ (call[c].initError = "sentimentAnalyzer" /\ call[c].handle = 0)
              => call[c].pc \in {"initialized", "done"}
        /\ (Done(c) /\ call[c].initError = "sentimentAnalyzer" /\ call[c].handle = 0) =>
              LET r == Returned(c)
              IN  /\ call[c].path = "normal"
                  /\ r.credibilityScore = Weighted(call[c].text, 50, 100)
                  /\ r.factors.sentimentAnalysis = 50
                  /\ r.classification = Classification(10 * r.credibilityScore)
                  /\ r.confidenceLevel = Min(2 * Abs(r.credibilityScore - 50), 95)
                  /\ ~(r.factors.sentimentAnalysis = 60 /\ r.confidenceLevel = 75)

\* the example text scored after the sentiment pipeline failed to load: 47
C7_Witness ==
    \E c \in Calls :
        /\ Done(c)
        /\ call[c].initError = "sentimentAnalyzer"
        /\ call[c].handle = 0
        /\ call[c].text = C8Text
        /\ Returned(c).credibilityScore = 47

\* C8, as claimed: for the example text every result lists the four risk factors
\* clickbait, conspiracy, capitalization and punctuation, and is 'misleading'.
C8_ExampleAsClaimed ==
    \A c \in Calls :
        (Done(c) /\ call[c].text = C8Text) =>
            /\ {Clickbait, Conspiracy, ExcessiveCapitalization, ExcessivePunctuation}
                  \subseteq Range(Returned(c).riskFactors)
            /\ Returned(c).classification = "misleading"

\* C8, amended: for the example text every result lists clickbait, conspiracy and
\* punctuation but not capitalization (9 of its 79 characters are upper case);
\* it is 'uncertain' with score 56 when the classifier throws and with score 47
\* when there is no classifier, and when the classifier answers the score is in
\* 37..57 and the result is 'misleading' exactly when the score is at most 40.
C8_ExampleAsScored ==
    \A c \in Calls :
        (Done(c) /\ call[c].text = C8Text) =>
            LET r == Returned(c)
            IN  /\ {Clickbait, Conspiracy, ExcessivePunctuation} \subseteq Range(r.riskFactors)
                /\ ExcessiveCapitalization \notin Range(r.riskFactors)
                /\ CapsCount(C8Text) = 9 /\ Len(C8Text) = 79
                /\ r.classification \in {"misleading", "uncertain"}
                /\ call[c].path = "fallback" =>
                      (r.credibilityScore = 56 /\ r.classification = "uncertain")
                /\ (call[c].path = "normal" /\ call[c].handle = 0) =>
                      (r.credibilityScore = 47 /\ r.classification = "uncertain")
                /\ (call[c].path = "normal" /\ call[c].handle # 0) =>
                      /\ r.credibilityScore \in 37..57
                      /\ r.classification = "misleading" <=> r.credibilityScore <= 40

\* the example text, classified 'misleading' after the classifier answered
C8_Witness ==
    \E c \in Calls :
        /\ Answered(c)
        /\ call[c].text = C8Text
        /\ Returned(c).classification = "misleading"
        /\ ExcessivePunctuation \in Range(Returned(c).riskFactors)

\* C9: a run of handleAnalyze on an empty or whitespace-only text shows the
\* validation error, does not invoke analyzeText and leaves the in-flight flag,
\* the progress and the last result as they were; so the engine only ever runs on a
\* text that is not blank.
C9_BlankTextIsRejected ==
    /\ [](\A c \in Calls : call[c].pc # "idle" => Trim(call[c].text) # <<>>)
    /\ [][(handleAnalyze /\ Trim(text) = <<>>) =>
             (toast' = "Error" /\ UNCHANGED <<isAnalyzing, progress, result, ui, call>>)]_vars

\* the validation error shown for a whitespace-only text, an earlier result and
\* its progress still in place
C9_Witness ==
    /\ toast = "Error"
    /\ text # <<>>
    /\ Trim(text) = <<>>
    /\ result # <<>>
    /\ progress = 100
    /\ ~isAnalyzing
    /\ \A c \in Calls : call[c].pc = "idle"

\* C10: in every result, on either path, riskFactors has 'Suspicious language
\* patterns detected' iff the reported languagePattern factor is below 50, and
\* 'Lack of factual substantiation' iff the reported factualConsistency factor is
\* below 50.
C10_RiskFactorsFollowReportedScores ==
    \A c \in Calls :
        Done(c) =>
            LET r == Returned(c)
            IN  /\ SuspiciousLanguage \in Range(r.riskFactors) <=> r.factors.languagePattern < 50
                /\ LackOfSubstantiation \in Range(r.riskFactors) <=>
                      r.factors.factualConsistency < 50

============================================================================
